---------------------------- MODULE Spec2Model ----------------------------
(***************************************************************************)
(* The sound registry of SoundSystem.cpp: the process-wide engine          *)
(* instance g_engine, the map g_loadedSounds from sound IDs to ma_sound    *)
(* objects, and the sixteen exported operations.  Each operation is one    *)
(* atomic action (the wrapper is used from one control thread); a third    *)
(* specification runs the operations from two threads, each operation in   *)
(* two steps, to see what unserialised use does.  The                      *)
(* miniaudio engine is modelled by its contract: start/stop may be         *)
(* rejected, stop keeps the cursor, seek sets it, and the mixing thread    *)
(* advances the cursor of a playing sound.                                 *)
(*                                                                         *)
(* Floats are integers in ten-thousandths (1.0 is 10000, 0.001 is 10),      *)
(* and NaN, the float that compares false with every float.                *)
(***************************************************************************)
EXTENDS Integers, Sequences, FiniteSets, TLC

\* ------------------------------------------------------------ bounds
\* Number of ma_sound objects the allocator can hand out at one time.
MaxHandles == 2
\* Last PCM frame of every asset (the cursor runs over 0..MaxFrame).
MaxFrame == 1

\* ------------------------------------------------------------ inputs
\* A null pointer argument (const char* == nullptr).
Null == "<nullptr>"
\* The non-null soundId strings that callers pass; "" is the empty string.
\* They are listed in std::string order, the order std::map iterates in.
SoundIdOrder == <<"", "a">>
SoundIds == {SoundIdOrder[i] : i \in DOMAIN SoundIdOrder}
SoundIdArgs == SoundIds \cup {Null}
\* The <<filePath, soundId>> pairs that callers pass to LoadSound: "a" is
\* loaded from either of two files, "" from one, and each argument is null
\* in some call.
LoadArgs ==
    {<<"a.wav", "a">>, <<"b.wav", "a">>, <<"a.wav", "">>,
     <<Null, "a">>, <<"a.wav", Null>>, <<Null, Null>>}
\* ma_result values the engine may return.
MA_SUCCESS == "MA_SUCCESS"
MA_ERROR == "MA_ERROR"
Results == {MA_SUCCESS, MA_ERROR}
\* Volume, pan and pitch arguments (ten-thousandths) and 3D positions.
VolumeArgs == {15000}
PanArgs == {0}
PitchArgs == {10000}
PositionArgs == {<<0, 0, 0>>}

\* Clamp limits of the setters, in ten-thousandths.
VolumeMin == 0
VolumeMax == 10000
PanMin == -10000
PanMax == 10000
\* The pitch that replaces a pitch of 0 or less (0.001f).
PitchFloor == 10

\* The float NaN, written as an integer that stands for no number; floats
\* are compared with FloatLess and FloatLessEq only.
NaN == 9999999
\* a < b and a <= b on floats: false when either side is NaN.
FloatLess(a, b) == a # NaN /\ b # NaN /\ a < b
FloatLessEq(a, b) == a # NaN /\ b # NaN /\ a <= b

\* The arguments of the second specification: one soundId, and volumes,
\* pans and pitches below, inside and above the ranges, and NaN.
ParamSoundIdArgs == {"a", Null}
ParamLoadArgs == {<<"a.wav", "a">>, <<Null, "a">>}
ParamVolumeArgs == {-2000, 5000, 15000, NaN}
ParamPanArgs == {-20000, 5000, 20000, NaN}
ParamPitchArgs == {-5000, 0, 5, 20000, NaN}
ParamPositionArgs == {<<1, 2, 3>>}

Handles == 1..MaxHandles
NoHandle == 0

VARIABLES
    g_engine,        \* state of the static ma_engine object
    g_loadedSounds,  \* the map, as a set of [id, h] entries
    sounds,          \* the ma_sound objects, by handle
    calls,           \* engine calls made by the last operation, in order
    diag,            \* the message the last operation wrote
    lastOp,          \* the last operation: its soundId, its other argument
                     \* and its return value
    threads,         \* the caller threads: where each is in its operation
    running          \* the thread that took the last step

vars == <<g_engine, g_loadedSounds, sounds, calls, diag, lastOp, threads, running>>

\* The caller threads of the third specification.  A thread is idle, or has
\* looked its soundId up (it holds the iterator find returned) and has the
\* rest of its operation to run; raced says that another thread ran a
\* whole operation, or the rest of one, in between.
Threads == {"T1", "T2"}
NoThread == "-"
IdleThread ==
    [pc |-> "idle", op |-> "", id |-> Null, it |-> {}, raced |-> FALSE]

\* ------------------------------------------------------------ ma_sound
\* Memory that holds no ma_sound object (never allocated, or deleted).
FreeSound ==
    [status |-> "free", playing |-> FALSE, pos |-> 0, looping |-> FALSE,
     volume |-> 10000, pan |-> 0, pitch |-> 10000, position |-> <<0, 0, 0>>,
     path |-> ""]

\* new (std::nothrow) ma_sound(): allocated and zeroed, not yet initialised.
AllocatedSound == [FreeSound EXCEPT !.status = "alloc"]

\* A sound the engine has initialised from a file: stopped at frame 0 with
\* the engine's default parameters.
LoadedSound(path) == [FreeSound EXCEPT !.status = "init", !.path = path]

\* ------------------------------------------------------------ std::map
Keys(m) == {e.id : e \in m}
Count(m, k) == Cardinality({e \in m : e.id = k})
Find(m, k) == (CHOOSE e \in m : e.id = k).h
\* m[k] = v
MapAssign(m, k, v) == {e \in m : e.id # k} \cup {[id |-> k, h |-> v]}
\* m.erase(it) for the iterator that find(k) returned
MapErase(m, k) == {e \in m : e.id # k}
MappedHandles(m) == {e.h : e \in m}

\* ------------------------------------------------------------ messages
NoDiag == [sev |-> "NONE", op |-> "", what |-> "", code |-> ""]
Message(sev, op, what, code) == [sev |-> sev, op |-> op, what |-> what, code |-> code]

\* ------------------------------------------------------------ engine calls
\* One entry of the call log: the engine function, the ma_sound passed (and
\* the state that object was in), the state of g_engine when it is passed,
\* the argument value, and the ma_result returned ("-" for a void call).
EngineCall(s, fn, h, usesEngine, arg, res) ==
    [fn |-> fn, h |-> h,
     hs |-> IF h = NoHandle THEN "-" ELSE s.snd[h].status,
     eng |-> IF usesEngine THEN s.eng ELSE "-",
     arg |-> arg, res |-> res]

Log(s, fn, h, usesEngine, arg, res) ==
    [s EXCEPT !.calls = Append(@, EngineCall(s, fn, h, usesEngine, arg, res))]

\* ma_engine_init: on success the object holds a live engine.  A failed
\* initialisation leaves no engine in it.  An engine that was live in the
\* object is overwritten without being released (the logged call shows it).
ma_engine_init(s, r) ==
    LET s1 == Log(s, "ma_engine_init", NoHandle, TRUE, "", r)
    IN  [s1 EXCEPT !.eng = IF r = MA_SUCCESS THEN "live"
                           ELSE IF s.eng = "released" THEN "released"
                           ELSE "zero"]

ma_engine_uninit(s) ==
    LET s1 == Log(s, "ma_engine_uninit", NoHandle, TRUE, "", "-")
    IN  [s1 EXCEPT !.eng = IF s.eng = "live" THEN "released" ELSE @]

ma_engine_set_volume(s, volume) ==
    Log(s, "ma_engine_set_volume", NoHandle, TRUE, volume, "-")

ma_engine_listener_set_position(s, p) ==
    Log(s, "ma_engine_listener_set_position", NoHandle, TRUE, p, "-")

ma_engine_listener_set_direction(s, d) ==
    Log(s, "ma_engine_listener_set_direction", NoHandle, TRUE, d, "-")

\* The lowest free slot, or NoHandle when the allocator has none (or fails).
NewSound(s, allocOk) ==
    LET free == {h \in Handles : s.snd[h].status = "free"}
    IN  IF allocOk /\ free # {}
        THEN CHOOSE h \in free : \A g \in free : h <= g
        ELSE NoHandle

Allocate(s, h) == [s EXCEPT !.snd[h] = AllocatedSound]

\* delete pSound
DeleteSound(s, h) ==
    LET s1 == Log(s, "delete", h, FALSE, "", "-")
    IN  [s1 EXCEPT !.snd[h] = FreeSound]

ma_sound_init_from_file(s, path, h, r) ==
    LET s1 == Log(s, "ma_sound_init_from_file", h, TRUE, path, r)
    IN  IF r = MA_SUCCESS THEN [s1 EXCEPT !.snd[h] = LoadedSound(path)] ELSE s1

ma_sound_uninit(s, h) ==
    LET s1 == Log(s, "ma_sound_uninit", h, FALSE, "", "-")
    IN  IF s.snd[h].status = "init"
        THEN [s1 EXCEPT !.snd[h].status = "uninit", !.snd[h].playing = FALSE]
        ELSE s1

\* The value ma_sound_is_playing returns, and the call itself.
IsPlaying(s, h) == s.snd[h].playing
ma_sound_is_playing(s, h) == Log(s, "ma_sound_is_playing", h, FALSE, "", "-")

\* Stop keeps the cursor where it is.
ma_sound_stop(s, h, r) ==
    LET s1 == Log(s, "ma_sound_stop", h, FALSE, "", r)
    IN  IF r = MA_SUCCESS THEN [s1 EXCEPT !.snd[h].playing = FALSE] ELSE s1

ma_sound_start(s, h, r) ==
    LET s1 == Log(s, "ma_sound_start", h, FALSE, "", r)
    IN  IF r = MA_SUCCESS THEN [s1 EXCEPT !.snd[h].playing = TRUE] ELSE s1

ma_sound_seek_to_pcm_frame(s, h, frame) ==
    LET s1 == Log(s, "ma_sound_seek_to_pcm_frame", h, FALSE, frame, "-")
    IN  [s1 EXCEPT !.snd[h].pos = frame]

ma_sound_set_looping(s, h, loop) ==
    LET s1 == Log(s, "ma_sound_set_looping", h, FALSE, loop, "-")
    IN  [s1 EXCEPT !.snd[h].looping = loop]

ma_sound_set_volume(s, h, volume) ==
    LET s1 == Log(s, "ma_sound_set_volume", h, FALSE, volume, "-")
    IN  [s1 EXCEPT !.snd[h].volume = volume]

ma_sound_set_pan(s, h, pan) ==
    LET s1 == Log(s, "ma_sound_set_pan", h, FALSE, pan, "-")
    IN  [s1 EXCEPT !.snd[h].pan = pan]

ma_sound_set_pitch(s, h, pitch) ==
    LET s1 == Log(s, "ma_sound_set_pitch", h, FALSE, pitch, "-")
    IN  [s1 EXCEPT !.snd[h].pitch = pitch]

ma_sound_set_position(s, h, p) ==
    LET s1 == Log(s, "ma_sound_set_position", h, FALSE, p, "-")
    IN  [s1 EXCEPT !.snd[h].position = p]

\* ------------------------------------------------------------ operations
\* The program state as an operation sees it on entry.
Entry ==
    [eng |-> g_engine, reg |-> g_loadedSounds,
     snd |-> sounds, calls |-> <<>>, diag |-> NoDiag, ret |-> "void"]

Say(s, sev, op, what, code) == [s EXCEPT !.diag = Message(sev, op, what, code)]
Returning(s, ret) == [s EXCEPT !.ret = ret]

\* The operation returns: its effects become the program state.  (Each
\* action picks s from a one-element set so that it is computed once.)
Return(s) ==
    /\ g_engine' = s.eng
    /\ g_loadedSounds' = s.reg
    /\ sounds' = s.snd
    /\ calls' = s.calls
    /\ diag' = s.diag
    /\ UNCHANGED <<threads, running>>

Called(s, op, id, arg) == [op |-> op, id |-> id, arg |-> arg, ret |-> s.ret]

\* InitializeSoundSystem that reports the failure but returns true.
InitializeSoundSystemFn_ReturnsTrue(s, r) ==
    LET s1 == ma_engine_init(s, r)
    IN  IF r # MA_SUCCESS
        THEN Returning(Say(s1, "ERROR", "InitializeSoundSystem", "", r), "true")
        ELSE Returning(Say(s1, "INFO", "InitializeSoundSystem", "", ""), "true")

InitializeSoundSystemFn(s, r) ==
    LET s1 == ma_engine_init(s, r)
    IN  IF r # MA_SUCCESS
        THEN Returning(Say(s1, "ERROR", "InitializeSoundSystem", "", r), "false")
        ELSE Returning(Say(s1, "INFO", "InitializeSoundSystem", "", ""), "true")

InitializeSoundSystem(r) ==
    \E s \in {InitializeSoundSystemFn(Entry, r)} :
        /\ Return(s)
        /\ lastOp' = Called(s, "InitializeSoundSystem", Null, "")

\* for (auto const& [soundId, soundPtr] : g_loadedSounds): the entries from
\* the i-th key on, in key order.
RECURSIVE ShutdownLoop(_, _)
ShutdownLoop(s, i) ==
    IF i > Len(SoundIdOrder) THEN s
    ELSE IF SoundIdOrder[i] \notin Keys(s.reg) THEN ShutdownLoop(s, i + 1)
    ELSE LET soundPtr == Find(s.reg, SoundIdOrder[i])
         IN  IF soundPtr # NoHandle
             THEN ShutdownLoop(DeleteSound(ma_sound_uninit(s, soundPtr), soundPtr), i + 1)
             ELSE ShutdownLoop(s, i + 1)

\* ShutdownSoundSystem without g_loadedSounds.clear().
ShutdownSoundSystemFn_NoClear(s) ==
    LET s1 == ShutdownLoop(s, 1)
        s3 == ma_engine_uninit(s1)
    IN  Say(s3, "INFO", "ShutdownSoundSystem", "", "")

ShutdownSoundSystemFn(s) ==
    LET s1 == ShutdownLoop(s, 1)
        s2 == [s1 EXCEPT !.reg = {}]
        s3 == ma_engine_uninit(s2)
    IN  Say(s3, "INFO", "ShutdownSoundSystem", "", "")

ShutdownSoundSystem ==
    \E s \in {ShutdownSoundSystemFn(Entry)} :
        /\ Return(s)
        /\ lastOp' = Called(s, "ShutdownSoundSystem", Null, "")

\* LoadSound without the duplicate-ID check: the new object replaces the
\* one the map held.
LoadSoundFn_Overwrites(s, filePath, soundId, allocOk, r) ==
    IF filePath = Null \/ soundId = Null
    THEN Returning(Say(s, "ERROR", "LoadSound", "null", ""), "false")
    ELSE LET pSound == NewSound(s, allocOk)
         IN  IF pSound = NoHandle
             THEN Returning(Say(s, "ERROR", "LoadSound", "alloc", ""), "false")
             ELSE LET s1 == ma_sound_init_from_file(Allocate(s, pSound), filePath, pSound, r)
                  IN  IF r # MA_SUCCESS
                      THEN Returning(Say(DeleteSound(s1, pSound),
                                         "ERROR", "LoadSound", filePath, r), "false")
                      ELSE Returning(Say([s1 EXCEPT !.reg = MapAssign(@, soundId, pSound)],
                                         "INFO", "LoadSound", soundId, ""), "true")

\* LoadSound that forgets delete pSound when the engine rejects the load.
LoadSoundFn_LeaksOnFailure(s, filePath, soundId, allocOk, r) ==
    IF filePath = Null \/ soundId = Null
    THEN Returning(Say(s, "ERROR", "LoadSound", "null", ""), "false")
    ELSE IF Count(s.reg, soundId) > 0
    THEN Returning(Say(s, "WARNING", "LoadSound", soundId, ""), "true")
    ELSE LET pSound == NewSound(s, allocOk)
         IN  IF pSound = NoHandle
             THEN Returning(Say(s, "ERROR", "LoadSound", "alloc", ""), "false")
             ELSE LET s1 == ma_sound_init_from_file(Allocate(s, pSound), filePath, pSound, r)
                  IN  IF r # MA_SUCCESS
                      THEN Returning(Say(s1, "ERROR", "LoadSound", filePath, r), "false")
                      ELSE Returning(Say([s1 EXCEPT !.reg = MapAssign(@, soundId, pSound)],
                                         "INFO", "LoadSound", soundId, ""), "true")

LoadSoundFn(s, filePath, soundId, allocOk, r) ==
    IF filePath = Null \/ soundId = Null
    THEN Returning(Say(s, "ERROR", "LoadSound", "null", ""), "false")
    ELSE IF Count(s.reg, soundId) > 0
    THEN Returning(Say(s, "WARNING", "LoadSound", soundId, ""), "true")
    ELSE LET pSound == NewSound(s, allocOk)
         IN  IF pSound = NoHandle
             THEN Returning(Say(s, "ERROR", "LoadSound", "alloc", ""), "false")
             ELSE LET s1 == ma_sound_init_from_file(Allocate(s, pSound), filePath, pSound, r)
                  IN  IF r # MA_SUCCESS
                      THEN Returning(Say(DeleteSound(s1, pSound),
                                         "ERROR", "LoadSound", filePath, r), "false")
                      ELSE Returning(Say([s1 EXCEPT !.reg = MapAssign(@, soundId, pSound)],
                                         "INFO", "LoadSound", soundId, ""), "true")

LoadSound(filePath, soundId, allocOk, r) ==
    \E s \in {LoadSoundFn(Entry, filePath, soundId, allocOk, r)} :
        /\ Return(s)
        /\ lastOp' = Called(s, "LoadSound", soundId, filePath)

\* UnloadSound without g_loadedSounds.erase(it).
UnloadSoundFn_NoErase(s, soundId, rStop) ==
    IF soundId = Null
    THEN Say(s, "ERROR", "UnloadSound", "null", "")
    ELSE IF soundId \in Keys(s.reg)
    THEN LET h == Find(s.reg, soundId)
             s1 == ma_sound_is_playing(s, h)
             s2 == IF IsPlaying(s, h) THEN ma_sound_stop(s1, h, rStop) ELSE s1
             s3 == DeleteSound(ma_sound_uninit(s2, h), h)
         IN  Say(s3, "INFO", "UnloadSound", soundId, "")
    ELSE Say(s, "WARNING", "UnloadSound", soundId, "")

\* UnloadSound that erases the entry and keeps the ma_sound.
UnloadSoundFn_KeepsObject(s, soundId, rStop) ==
    IF soundId = Null
    THEN Say(s, "ERROR", "UnloadSound", "null", "")
    ELSE IF soundId \in Keys(s.reg)
    THEN LET h == Find(s.reg, soundId)
             s1 == ma_sound_is_playing(s, h)
             s2 == IF IsPlaying(s, h) THEN ma_sound_stop(s1, h, rStop) ELSE s1
             s4 == [s2 EXCEPT !.reg = MapErase(@, soundId)]
         IN  Say(s4, "INFO", "UnloadSound", soundId, "")
    ELSE Say(s, "WARNING", "UnloadSound", soundId, "")

UnloadSoundFn(s, soundId, rStop) ==
    IF soundId = Null
    THEN Say(s, "ERROR", "UnloadSound", "null", "")
    ELSE IF soundId \in Keys(s.reg)
    THEN LET h == Find(s.reg, soundId)
             s1 == ma_sound_is_playing(s, h)
             s2 == IF IsPlaying(s, h) THEN ma_sound_stop(s1, h, rStop) ELSE s1
             s3 == DeleteSound(ma_sound_uninit(s2, h), h)
             s4 == [s3 EXCEPT !.reg = MapErase(@, soundId)]
         IN  Say(s4, "INFO", "UnloadSound", soundId, "")
    ELSE Say(s, "WARNING", "UnloadSound", soundId, "")

UnloadSound(soundId, rStop) ==
    \E s \in {UnloadSoundFn(Entry, soundId, rStop)} :
        /\ Return(s)
        /\ lastOp' = Called(s, "UnloadSound", soundId, "")

\* SndPlaySound that stops a playing sound without rewinding it.
SndPlaySoundFn_NoRewind(s, soundId, loop, rStop, rStart) ==
    IF soundId = Null
    THEN Say(s, "ERROR", "SndPlaySound", "null", "")
    ELSE IF soundId \in Keys(s.reg)
    THEN LET pSound == Find(s.reg, soundId)
             s1 == ma_sound_is_playing(s, pSound)
             s2 == IF IsPlaying(s, pSound) THEN ma_sound_stop(s1, pSound, rStop) ELSE s1
             s3 == ma_sound_start(ma_sound_set_looping(s2, pSound, loop), pSound, rStart)
         IN  IF rStart # MA_SUCCESS
             THEN Say(s3, "ERROR", "SndPlaySound", soundId, rStart)
             ELSE Say(s3, "INFO", "SndPlaySound", soundId, "")
    ELSE Say(s, "WARNING", "SndPlaySound", soundId, "")

\* SndPlaySound that sets the looping flag only once the sound has started.
SndPlaySoundFn_LoopsAfterStart(s, soundId, loop, rStop, rStart) ==
    IF soundId = Null
    THEN Say(s, "ERROR", "SndPlaySound", "null", "")
    ELSE IF soundId \in Keys(s.reg)
    THEN LET pSound == Find(s.reg, soundId)
             s1 == ma_sound_is_playing(s, pSound)
             s2 == IF IsPlaying(s, pSound)
                   THEN ma_sound_seek_to_pcm_frame(ma_sound_stop(s1, pSound, rStop), pSound, 0)
                   ELSE s1
             s3 == ma_sound_start(s2, pSound, rStart)
         IN  IF rStart # MA_SUCCESS
             THEN Say(s3, "ERROR", "SndPlaySound", soundId, rStart)
             ELSE Say(ma_sound_set_looping(s3, pSound, loop),
                      "INFO", "SndPlaySound", soundId, "")
    ELSE Say(s, "WARNING", "SndPlaySound", soundId, "")

\* SndPlaySound that rewinds whether or not the sound is playing.
SndPlaySoundFn_AlwaysRewinds(s, soundId, loop, rStop, rStart) ==
    IF soundId = Null
    THEN Say(s, "ERROR", "SndPlaySound", "null", "")
    ELSE IF soundId \in Keys(s.reg)
    THEN LET pSound == Find(s.reg, soundId)
             s1 == ma_sound_is_playing(s, pSound)
             s2 == IF IsPlaying(s, pSound)
                   THEN ma_sound_seek_to_pcm_frame(ma_sound_stop(s1, pSound, rStop), pSound, 0)
                   ELSE ma_sound_seek_to_pcm_frame(s1, pSound, 0)
             s3 == ma_sound_start(ma_sound_set_looping(s2, pSound, loop), pSound, rStart)
         IN  IF rStart # MA_SUCCESS
             THEN Say(s3, "ERROR", "SndPlaySound", soundId, rStart)
             ELSE Say(s3, "INFO", "SndPlaySound", soundId, "")
    ELSE Say(s, "WARNING", "SndPlaySound", soundId, "")

SndPlaySoundFn(s, soundId, loop, rStop, rStart) ==
    IF soundId = Null
    THEN Say(s, "ERROR", "SndPlaySound", "null", "")
    ELSE IF soundId \in Keys(s.reg)
    THEN LET pSound == Find(s.reg, soundId)
             s1 == ma_sound_is_playing(s, pSound)
             s2 == IF IsPlaying(s, pSound)
                   THEN ma_sound_seek_to_pcm_frame(ma_sound_stop(s1, pSound, rStop), pSound, 0)
                   ELSE s1
             s3 == ma_sound_start(ma_sound_set_looping(s2, pSound, loop), pSound, rStart)
         IN  IF rStart # MA_SUCCESS
             THEN Say(s3, "ERROR", "SndPlaySound", soundId, rStart)
             ELSE Say(s3, "INFO", "SndPlaySound", soundId, "")
    ELSE Say(s, "WARNING", "SndPlaySound", soundId, "")

SndPlaySound(soundId, loop, rStop, rStart) ==
    \E s \in {SndPlaySoundFn(Entry, soundId, loop, rStop, rStart)} :
        /\ Return(s)
        /\ lastOp' = Called(s, "SndPlaySound", soundId, loop)

\* StopSound that stops and rewinds without asking whether the sound plays.
StopSoundFn_Unconditional(s, soundId, rStop) ==
    IF soundId = Null
    THEN Say(s, "ERROR", "StopSound", "null", "")
    ELSE IF soundId \in Keys(s.reg)
    THEN LET pSound == Find(s.reg, soundId)
             s2 == ma_sound_stop(s, pSound, rStop)
         IN  IF rStop # MA_SUCCESS
             THEN Say(s2, "ERROR", "StopSound", soundId, rStop)
             ELSE Say(ma_sound_seek_to_pcm_frame(s2, pSound, 0),
                      "INFO", "StopSound", soundId, "")
    ELSE Say(s, "WARNING", "StopSound", soundId, "")

StopSoundFn(s, soundId, rStop) ==
    IF soundId = Null
    THEN Say(s, "ERROR", "StopSound", "null", "")
    ELSE IF soundId \in Keys(s.reg)
    THEN LET pSound == Find(s.reg, soundId)
             s1 == ma_sound_is_playing(s, pSound)
         IN  IF IsPlaying(s, pSound)
             THEN LET s2 == ma_sound_stop(s1, pSound, rStop)
                  IN  IF rStop # MA_SUCCESS
                      THEN Say(s2, "ERROR", "StopSound", soundId, rStop)
                      ELSE Say(ma_sound_seek_to_pcm_frame(s2, pSound, 0),
                               "INFO", "StopSound", soundId, "")
             ELSE Say(s1, "INFO", "StopSound", soundId, "not playing")
    ELSE Say(s, "WARNING", "StopSound", soundId, "")

StopSound(soundId, rStop) ==
    \E s \in {StopSoundFn(Entry, soundId, rStop)} :
        /\ Return(s)
        /\ lastOp' = Called(s, "StopSound", soundId, "")

\* PauseSound that rewinds the way StopSound does.
PauseSoundFn_Rewinds(s, soundId, rStop) ==
    IF soundId = Null
    THEN Say(s, "ERROR", "PauseSound", "null", "")
    ELSE IF soundId \in Keys(s.reg)
    THEN LET pSound == Find(s.reg, soundId)
             s1 == ma_sound_stop(s, pSound, rStop)
         IN  IF rStop # MA_SUCCESS
             THEN Say(s1, "ERROR", "PauseSound", soundId, rStop)
             ELSE Say(ma_sound_seek_to_pcm_frame(s1, pSound, 0),
                      "INFO", "PauseSound", soundId, "")
    ELSE Say(s, "WARNING", "PauseSound", soundId, "")

PauseSoundFn(s, soundId, rStop) ==
    IF soundId = Null
    THEN Say(s, "ERROR", "PauseSound", "null", "")
    ELSE IF soundId \in Keys(s.reg)
    THEN LET pSound == Find(s.reg, soundId)
             s1 == ma_sound_stop(s, pSound, rStop)
         IN  IF rStop # MA_SUCCESS
             THEN Say(s1, "ERROR", "PauseSound", soundId, rStop)
             ELSE Say(s1, "INFO", "PauseSound", soundId, "")
    ELSE Say(s, "WARNING", "PauseSound", soundId, "")

PauseSound(soundId, rStop) ==
    \E s \in {PauseSoundFn(Entry, soundId, rStop)} :
        /\ Return(s)
        /\ lastOp' = Called(s, "PauseSound", soundId, "")

ResumeSoundFn(s, soundId, rStart) ==
    IF soundId = Null
    THEN Say(s, "ERROR", "ResumeSound", "null", "")
    ELSE IF soundId \in Keys(s.reg)
    THEN LET pSound == Find(s.reg, soundId)
             s1 == ma_sound_start(s, pSound, rStart)
         IN  IF rStart # MA_SUCCESS
             THEN Say(s1, "ERROR", "ResumeSound", soundId, rStart)
             ELSE Say(s1, "INFO", "ResumeSound", soundId, "")
    ELSE Say(s, "WARNING", "ResumeSound", soundId, "")

ResumeSound(soundId, rStart) ==
    \E s \in {ResumeSoundFn(Entry, soundId, rStart)} :
        /\ Return(s)
        /\ lastOp' = Called(s, "ResumeSound", soundId, "")

\* std::clamp(v, lo, hi)
Clamp(v, lo, hi) == IF FloatLess(v, lo) THEN lo ELSE IF FloatLess(hi, v) THEN hi ELSE v

SetMasterVolumeFn(s, volume) ==
    LET v == Clamp(volume, VolumeMin, VolumeMax)
    IN  Say(ma_engine_set_volume(s, v), "INFO", "SetMasterVolume", "", "")

SetMasterVolume(volume) ==
    \E s \in {SetMasterVolumeFn(Entry, volume)} :
        /\ Return(s)
        /\ lastOp' = Called(s, "SetMasterVolume", Null, volume)

\* SetSoundVolume that looks the ID up with g_loadedSounds[s_soundId], which
\* inserts a null entry for an ID the map does not hold.
SetSoundVolumeFn_Inserts(s, soundId, volume) ==
    IF soundId = Null
    THEN Say(s, "ERROR", "SetSoundVolume", "null", "")
    ELSE IF soundId \in Keys(s.reg)
    THEN LET pSound == Find(s.reg, soundId)
             v == Clamp(volume, VolumeMin, VolumeMax)
         IN  Say(ma_sound_set_volume(s, pSound, v), "INFO", "SetSoundVolume", soundId, "")
    ELSE Say([s EXCEPT !.reg = MapAssign(@, soundId, NoHandle)],
             "WARNING", "SetSoundVolume", soundId, "")

SetSoundVolumeFn(s, soundId, volume) ==
    IF soundId = Null
    THEN Say(s, "ERROR", "SetSoundVolume", "null", "")
    ELSE IF soundId \in Keys(s.reg)
    THEN LET pSound == Find(s.reg, soundId)
             v == Clamp(volume, VolumeMin, VolumeMax)
         IN  Say(ma_sound_set_volume(s, pSound, v), "INFO", "SetSoundVolume", soundId, "")
    ELSE Say(s, "WARNING", "SetSoundVolume", soundId, "")

SetSoundVolume(soundId, volume) ==
    \E s \in {SetSoundVolumeFn(Entry, soundId, volume)} :
        /\ Return(s)
        /\ lastOp' = Called(s, "SetSoundVolume", soundId, volume)

SetSoundPanFn(s, soundId, pan) ==
    IF soundId = Null
    THEN Say(s, "ERROR", "SetSoundPan", "null", "")
    ELSE IF soundId \in Keys(s.reg)
    THEN LET pSound == Find(s.reg, soundId)
             v == Clamp(pan, PanMin, PanMax)
         IN  Say(ma_sound_set_pan(s, pSound, v), "INFO", "SetSoundPan", soundId, "")
    ELSE Say(s, "WARNING", "SetSoundPan", soundId, "")

SetSoundPan(soundId, pan) ==
    \E s \in {SetSoundPanFn(Entry, soundId, pan)} :
        /\ Return(s)
        /\ lastOp' = Called(s, "SetSoundPan", soundId, pan)

\* SetSoundPitch that raises every pitch below the floor to the floor.
SetSoundPitchFn_RaisesToFloor(s, soundId, pitch) ==
    IF soundId = Null
    THEN Say(s, "ERROR", "SetSoundPitch", "null", "")
    ELSE IF soundId \in Keys(s.reg)
    THEN LET pSound == Find(s.reg, soundId)
             v == IF FloatLess(pitch, PitchFloor) THEN PitchFloor ELSE pitch
         IN  Say(ma_sound_set_pitch(s, pSound, v), "INFO", "SetSoundPitch", soundId, "")
    ELSE Say(s, "WARNING", "SetSoundPitch", soundId, "")

SetSoundPitchFn(s, soundId, pitch) ==
    IF soundId = Null
    THEN Say(s, "ERROR", "SetSoundPitch", "null", "")
    ELSE IF soundId \in Keys(s.reg)
    THEN LET pSound == Find(s.reg, soundId)
             v == IF FloatLessEq(pitch, 0) THEN PitchFloor ELSE pitch
         IN  Say(ma_sound_set_pitch(s, pSound, v), "INFO", "SetSoundPitch", soundId, "")
    ELSE Say(s, "WARNING", "SetSoundPitch", soundId, "")

SetSoundPitch(soundId, pitch) ==
    \E s \in {SetSoundPitchFn(Entry, soundId, pitch)} :
        /\ Return(s)
        /\ lastOp' = Called(s, "SetSoundPitch", soundId, pitch)

\* SetSoundPosition that takes the position for the cursor as well.
SetSoundPositionFn_Seeks(s, soundId, p) ==
    IF soundId = Null
    THEN Say(s, "ERROR", "SetSoundPosition", "null", "")
    ELSE IF soundId \in Keys(s.reg)
    THEN LET pSound == Find(s.reg, soundId)
         IN  Say(ma_sound_seek_to_pcm_frame(ma_sound_set_position(s, pSound, p), pSound, p[1]),
                 "INFO", "SetSoundPosition", soundId, "")
    ELSE Say(s, "WARNING", "SetSoundPosition", soundId, "")

SetSoundPositionFn(s, soundId, p) ==
    IF soundId = Null
    THEN Say(s, "ERROR", "SetSoundPosition", "null", "")
    ELSE IF soundId \in Keys(s.reg)
    THEN LET pSound == Find(s.reg, soundId)
         IN  Say(ma_sound_set_position(s, pSound, p), "INFO", "SetSoundPosition", soundId, "")
    ELSE Say(s, "WARNING", "SetSoundPosition", soundId, "")

SetSoundPosition(soundId, p) ==
    \E s \in {SetSoundPositionFn(Entry, soundId, p)} :
        /\ Return(s)
        /\ lastOp' = Called(s, "SetSoundPosition", soundId, p)

SetListenerPositionFn(s, p) ==
    Say(ma_engine_listener_set_position(s, p), "INFO", "SetListenerPosition", "", "")

SetListenerPosition(p) ==
    \E s \in {SetListenerPositionFn(Entry, p)} :
        /\ Return(s)
        /\ lastOp' = Called(s, "SetListenerPosition", Null, p)

SetListenerOrientationFn(s, d) ==
    Say(ma_engine_listener_set_direction(s, d), "INFO", "SetListenerOrientation", "", "")

SetListenerOrientation(d) ==
    \E s \in {SetListenerOrientationFn(Entry, d)} :
        /\ Return(s)
        /\ lastOp' = Called(s, "SetListenerOrientation", Null, d)

\* IsSoundPlaying that answers whether the map holds the ID.
IsSoundPlayingFn_Found(s, soundId) ==
    IF soundId = Null
    THEN Returning(s, "false")
    ELSE IF soundId \in Keys(s.reg)
    THEN Returning(ma_sound_is_playing(s, Find(s.reg, soundId)), "true")
    ELSE Returning(s, "false")

IsSoundPlayingFn(s, soundId) ==
    IF soundId = Null
    THEN Returning(s, "false")
    ELSE IF soundId \in Keys(s.reg)
    THEN LET h == Find(s.reg, soundId)
         IN  Returning(ma_sound_is_playing(s, h),
                       IF IsPlaying(s, h) THEN "true" ELSE "false")
    ELSE Returning(s, "false")

IsSoundPlaying(soundId) ==
    \E s \in {IsSoundPlayingFn(Entry, soundId)} :
        /\ Return(s)
        /\ lastOp' = Called(s, "IsSoundPlaying", soundId, "")

\* The engine's mixing thread reads one more frame of a playing sound: the
\* cursor advances; at the last frame a looping sound wraps to frame 0 and
\* any other sound stops where it is.
MixFn(s, h) ==
    IF s.snd[h].pos < MaxFrame THEN [s EXCEPT !.snd[h].pos = @ + 1]
    ELSE IF s.snd[h].looping THEN [s EXCEPT !.snd[h].pos = 0]
    ELSE [s EXCEPT !.snd[h].playing = FALSE]

Mix(h) ==
    \E s \in {MixFn(Entry, h)} :
        /\ sounds[h].status = "init"
        /\ sounds[h].playing
        /\ Return(s)
        /\ lastOp' = Called(s, "Mix", Null, h)

Init ==
    /\ g_engine = "zero"
    /\ g_loadedSounds = {}
    /\ sounds = [h \in Handles |-> FreeSound]
    /\ calls = <<>>
    /\ diag = NoDiag
    /\ lastOp = [op |-> "", id |-> Null, arg |-> "", ret |-> "void"]
    /\ threads = [t \in Threads |-> IdleThread]
    /\ running = NoThread

Next ==
    \/ \E r \in Results : InitializeSoundSystem(r)
    \/ ShutdownSoundSystem
    \/ \E a \in LoadArgs, allocOk \in BOOLEAN, r \in Results :
          LoadSound(a[1], a[2], allocOk, r)
    \/ \E id \in SoundIdArgs, r \in Results : UnloadSound(id, r)
    \/ \E id \in SoundIdArgs, loop \in BOOLEAN, rStop \in Results, rStart \in Results :
          SndPlaySound(id, loop, rStop, rStart)
    \/ \E id \in SoundIdArgs, r \in Results : StopSound(id, r)
    \/ \E id \in SoundIdArgs, r \in Results : PauseSound(id, r)
    \/ \E id \in SoundIdArgs, r \in Results : ResumeSound(id, r)
    \/ \E v \in VolumeArgs : SetMasterVolume(v)
    \/ \E id \in SoundIdArgs, v \in VolumeArgs : SetSoundVolume(id, v)
    \/ \E id \in SoundIdArgs, v \in PanArgs : SetSoundPan(id, v)
    \/ \E id \in SoundIdArgs, v \in PitchArgs : SetSoundPitch(id, v)
    \/ \E id \in SoundIdArgs, p \in PositionArgs : SetSoundPosition(id, p)
    \/ \E p \in PositionArgs : SetListenerPosition(p)
    \/ \E d \in PositionArgs : SetListenerOrientation(d)
    \/ \E id \in SoundIdArgs : IsSoundPlaying(id)
    \/ \E h \in Handles : Mix(h)

Spec == Init /\ [][Next]_vars

\* The second specification: the same operations on one soundId, called
\* with the wider volume, pan, pitch and position arguments.
NextParams ==
    \/ \E r \in Results : InitializeSoundSystem(r)
    \/ ShutdownSoundSystem
    \/ \E a \in ParamLoadArgs, allocOk \in BOOLEAN, r \in Results :
          LoadSound(a[1], a[2], allocOk, r)
    \/ \E id \in ParamSoundIdArgs, r \in Results : UnloadSound(id, r)
    \/ \E id \in ParamSoundIdArgs, rStop \in Results, rStart \in Results :
          SndPlaySound(id, FALSE, rStop, rStart)
    \/ \E id \in ParamSoundIdArgs, r \in Results : StopSound(id, r)
    \/ \E id \in ParamSoundIdArgs, r \in Results : PauseSound(id, r)
    \/ \E id \in ParamSoundIdArgs, r \in Results : ResumeSound(id, r)
    \/ \E v \in ParamVolumeArgs : SetMasterVolume(v)
    \/ \E id \in ParamSoundIdArgs, v \in ParamVolumeArgs : SetSoundVolume(id, v)
    \/ \E id \in ParamSoundIdArgs, v \in ParamPanArgs : SetSoundPan(id, v)
    \/ \E id \in ParamSoundIdArgs, v \in ParamPitchArgs : SetSoundPitch(id, v)
    \/ \E id \in ParamSoundIdArgs, p \in ParamPositionArgs : SetSoundPosition(id, p)
    \/ \E p \in ParamPositionArgs : SetListenerPosition(p)
    \/ \E d \in ParamPositionArgs : SetListenerOrientation(d)
    \/ \E id \in ParamSoundIdArgs : IsSoundPlaying(id)
    \/ \E h \in Handles : Mix(h)

SpecParams == Init /\ [][NextParams]_vars

\* ------------------------------------------------------------ properties
Loaded(id) == id \in Keys(g_loadedSounds)
HandleOf(id) == Find(g_loadedSounds, id)
CallNames(cs) == [i \in DOMAIN cs |-> cs[i].fn]
CallsTo(cs, fn) == {i \in DOMAIN cs : cs[i].fn = fn}
\* The operations that take a soundId and look it up in the map.
LookupOps ==
    {"UnloadSound", "SndPlaySound", "StopSound", "PauseSound", "ResumeSound",
     "SetSoundVolume", "SetSoundPan", "SetSoundPitch", "SetSoundPosition",
     "IsSoundPlaying"}

\* C1: LoadSound with a soundId the map already holds (and a non-null path,
\* the same or another one) returns true, makes no engine call and leaves
\* the map, every ma_sound object and the engine as they were; the map never
\* holds two entries with one soundId.
C1_DuplicateLoadIsNoOp ==
    [][ /\ \A id \in SoundIds : Count(g_loadedSounds', id) <= 1
        /\ (lastOp'.op = "LoadSound" /\ lastOp'.arg # Null /\ lastOp'.id \in Keys(g_loadedSounds))
             => /\ lastOp'.ret = "true"
                /\ calls' = <<>>
                /\ g_loadedSounds' = g_loadedSounds
                /\ sounds' = sounds
                /\ g_engine' = g_engine ]_vars

\* A duplicate LoadSound with another path has returned true while the entry
\* is playing past frame 0 from the path of the first load.
C1_Witness ==
    /\ lastOp.op = "LoadSound" /\ lastOp.ret = "true" /\ diag.sev = "WARNING"
    /\ calls = <<>>
    /\ Loaded(lastOp.id)
    /\ sounds[HandleOf(lastOp.id)].path # lastOp.arg
    /\ sounds[HandleOf(lastOp.id)].playing
    /\ sounds[HandleOf(lastOp.id)].pos > 0
    /\ sounds[HandleOf(lastOp.id)].looping

\* C2: when StopSound(soundId) returns for an entry of the map (the engine
\* being live and having rejected no request), the entry's cursor is at
\* frame 0, whatever state the entry was in.
C2_StopLeavesFrameZero ==
    (g_engine = "live" /\ lastOp.op = "StopSound" /\ Loaded(lastOp.id) /\ diag.sev # "ERROR")
        => sounds[HandleOf(lastOp.id)].pos = 0

\* C3: PauseSound on a playing entry makes no seek and leaves the cursor
\* where it is (the entry is stopped unless the engine rejects the stop); a
\* ResumeSound of the same entry that directly follows makes no seek either,
\* the cursor is not before its place at the pause, and the entry is
\* playing unless the engine rejects the start.
C3_PauseResumeKeepCursor ==
    [][ \A id \in SoundIds : id \in Keys(g_loadedSounds) =>
          LET h == Find(g_loadedSounds, id)
              noSeek == CallsTo(calls', "ma_sound_seek_to_pcm_frame") = {}
          IN  /\ (lastOp'.op = "PauseSound" /\ lastOp'.id = id /\ sounds[h].playing)
                   => /\ noSeek
                      /\ sounds'[h].pos = sounds[h].pos
                      /\ diag'.sev # "ERROR" => ~sounds'[h].playing
              /\ (lastOp.op = "PauseSound" /\ lastOp.id = id /\
                  lastOp'.op = "ResumeSound" /\ lastOp'.id = id)
                   => /\ noSeek
                      /\ sounds'[h].pos >= sounds[h].pos
                      /\ diag'.sev # "ERROR" => sounds'[h].playing ]_vars

\* ResumeSound has restarted an entry that stands past frame 0.
C3_Witness ==
    /\ lastOp.op = "ResumeSound" /\ diag.sev = "INFO"
    /\ Loaded(lastOp.id)
    /\ CallNames(calls) = <<"ma_sound_start">>
    /\ sounds[HandleOf(lastOp.id)].playing
    /\ sounds[HandleOf(lastOp.id)].pos > 0

\* C4 (as stated): SndPlaySound on a playing entry leaves it playing from
\* frame 0.
C4_PlayLeavesPlayingAtZero ==
    [][ \A id \in SoundIds :
          (id \in Keys(g_loadedSounds) /\ lastOp'.op = "SndPlaySound" /\ lastOp'.id = id
             /\ sounds[Find(g_loadedSounds, id)].playing)
          => /\ sounds'[Find(g_loadedSounds, id)].pos = 0
             /\ sounds'[Find(g_loadedSounds, id)].playing ]_vars

\* C4 (amended): SndPlaySound on a playing entry asks the engine, in this
\* order and for that one object, whether it plays, to stop, to seek to
\* frame 0, to set the looping flag and to start (one start only); after
\* the call the cursor is at frame 0 and the entry is playing provided the
\* engine accepted the start.
C4_PlayRestartsFromZero ==
    [][ \A id \in SoundIds :
          (id \in Keys(g_loadedSounds) /\ lastOp'.op = "SndPlaySound" /\ lastOp'.id = id
             /\ sounds[Find(g_loadedSounds, id)].playing)
          => LET h == Find(g_loadedSounds, id)
             IN  /\ CallNames(calls') =
                        <<"ma_sound_is_playing", "ma_sound_stop",
                          "ma_sound_seek_to_pcm_frame", "ma_sound_set_looping",
                          "ma_sound_start">>
                 /\ \A i \in DOMAIN calls' : calls'[i].h = h
                 /\ calls'[3].arg = 0
                 /\ sounds'[h].pos = 0
                 /\ calls'[5].res = MA_SUCCESS => sounds'[h].playing
                 /\ Count(g_loadedSounds', id) = 1 ]_vars

\* SndPlaySound has restarted an entry that was playing: the engine took the
\* stop and the start, and the entry plays from frame 0.
C4_Witness ==
    /\ lastOp.op = "SndPlaySound" /\ diag.sev = "INFO"
    /\ Loaded(lastOp.id)
    /\ Len(calls) = 5
    /\ calls[2].fn = "ma_sound_stop" /\ calls[2].res = MA_SUCCESS
    /\ sounds[HandleOf(lastOp.id)].playing
    /\ sounds[HandleOf(lastOp.id)].pos = 0

\* C5: an operation that looks a soundId up, called with a non-null soundId
\* the map does not hold, makes no engine call, leaves the map, the ma_sound
\* objects and the engine unchanged, and returns (IsSoundPlaying: false).
C5_UnknownIdIsNoOp ==
    [][ (lastOp'.op \in LookupOps /\ lastOp'.id # Null /\ lastOp'.id \notin Keys(g_loadedSounds))
          => /\ calls' = <<>>
             /\ g_loadedSounds' = g_loadedSounds
             /\ sounds' = sounds
             /\ g_engine' = g_engine
             /\ lastOp'.ret = IF lastOp'.op = "IsSoundPlaying" THEN "false" ELSE "void"
             /\ diag'.sev = IF lastOp'.op = "IsSoundPlaying" THEN "NONE" ELSE "WARNING" ]_vars

\* SetSoundVolume was called with an ID the map does not hold while the map
\* holds a playing entry under another ID.
C5_Witness ==
    /\ lastOp.op = "SetSoundVolume" /\ lastOp.id # Null /\ ~Loaded(lastOp.id)
    /\ diag.sev = "WARNING"
    /\ \E e \in g_loadedSounds : sounds[e.h].playing

\* C6: with a live engine, LoadSound called with a null or an empty soundId
\* returns false, makes no engine call and creates no entry under the empty
\* key.
C6_EmptyIdRejected ==
    (g_engine = "live" /\ lastOp.op = "LoadSound" /\ lastOp.id \in {Null, ""})
        => /\ lastOp.ret = "false"
           /\ calls = <<>>
           /\ "" \notin Keys(g_loadedSounds)

\* C7: when the engine rejects the load of a soundId the map does not hold,
\* LoadSound returns false, the map is unchanged, the object allocated for
\* the attempt is deleted (once, never having been initialised), and every
\* allocated object is one the map holds.
C7_RejectedLoadReleases ==
    [][ (lastOp'.op = "LoadSound" /\
         \E i \in DOMAIN calls' :
             calls'[i].fn = "ma_sound_init_from_file" /\ calls'[i].res # MA_SUCCESS)
          => /\ lastOp'.ret = "false"
             /\ g_loadedSounds' = g_loadedSounds
             /\ sounds' = sounds
             /\ CallNames(calls') = <<"ma_sound_init_from_file", "delete">>
             /\ calls'[2].h = calls'[1].h /\ calls'[2].hs = "alloc"
             /\ \A h \in Handles :
                    sounds'[h].status # "free" => h \in MappedHandles(g_loadedSounds') ]_vars

\* The engine rejected a load while the map held an entry: LoadSound
\* returned false and deleted its object.
C7_Witness ==
    /\ lastOp.op = "LoadSound" /\ lastOp.ret = "false"
    /\ CallNames(calls) = <<"ma_sound_init_from_file", "delete">>
    /\ calls[1].res = MA_ERROR
    /\ g_loadedSounds # {}
    /\ ~Loaded(lastOp.id)

\* C8: when ShutdownSoundSystem returns the map is empty, every object the
\* map held was uninitialised and deleted exactly once by the call, nothing
\* else was deleted, and no ma_sound object remains.
C8_ShutdownReleasesAll ==
    [][ lastOp'.op = "ShutdownSoundSystem"
          => /\ g_loadedSounds' = {}
             /\ \A e \in g_loadedSounds :
                    /\ Cardinality({i \in CallsTo(calls', "delete") : calls'[i].h = e.h}) = 1
                    /\ Cardinality({i \in CallsTo(calls', "ma_sound_uninit") : calls'[i].h = e.h}) = 1
             /\ \A i \in CallsTo(calls', "delete") :
                    calls'[i].h \in MappedHandles(g_loadedSounds) /\ calls'[i].hs = "uninit"
             /\ \A i \in CallsTo(calls', "ma_sound_uninit") : calls'[i].hs = "init"
             /\ \A h \in Handles : sounds'[h].status = "free" ]_vars

\* ShutdownSoundSystem has released two entries.
C8_Witness ==
    /\ lastOp.op = "ShutdownSoundSystem"
    /\ Cardinality(CallsTo(calls, "delete")) = 2
    /\ g_loadedSounds = {}

\* C9: no operation other than InitializeSoundSystem passes the engine
\* object to the engine after ShutdownSoundSystem released it, and none
\* passes a deleted ma_sound object.
C9_NoUseAfterShutdown ==
    \A i \in DOMAIN calls :
        /\ calls[i].fn # "ma_engine_init" => calls[i].eng # "released"
        /\ calls[i].hs # "free"

\* The state a ma_sound object must be in when it is passed to fn.
ValidFor(fn) ==
    IF fn = "ma_sound_init_from_file" THEN {"alloc"}
    ELSE IF fn = "delete" THEN {"alloc", "uninit"}
    ELSE {"init"}

\* C10: the map holds one entry per soundId and each entry maps to an
\* initialised, unreleased ma_sound object; every ma_sound object that is
\* allocated is the one some entry maps to; and every engine call of the
\* last operation on a ma_sound object found it in the state the call needs.
C10_EntryIffValidHandle ==
    /\ \A e \in g_loadedSounds : e.h \in Handles /\ sounds[e.h].status = "init"
    /\ \A id \in SoundIds : Count(g_loadedSounds, id) <= 1
    /\ \A h \in Handles :
           sounds[h].status # "free"
               => Cardinality({e \in g_loadedSounds : e.h = h}) = 1
    /\ \A i \in DOMAIN calls :
           calls[i].h # NoHandle => calls[i].hs \in ValidFor(calls[i].fn)

\* UnloadSound has released a playing entry while the map keeps another one.
C10_Witness ==
    /\ lastOp.op = "UnloadSound"
    /\ CallNames(calls) =
           <<"ma_sound_is_playing", "ma_sound_stop", "ma_sound_uninit", "delete">>
    /\ ~Loaded(lastOp.id)
    /\ g_loadedSounds # {}

\* C11: once ShutdownSoundSystem has released the engine (and until a later
\* InitializeSoundSystem succeeds) the map holds no entry: a LoadSound made
\* in such a state inserts nothing.
C11_NoEntryWithoutEngine ==
    g_engine = "released" => g_loadedSounds = {}

\* C12: for an entry of the map and an engine that accepts the requests,
\* an IsSoundPlaying(soundId) that directly follows the LoadSound that
\* created the entry returns false, one that directly follows SndPlaySound
\* returns true, and one that directly follows StopSound returns false.
C12_PlayingAfterLoadPlayStop ==
    [][ (lastOp'.op = "IsSoundPlaying" /\ lastOp'.id = lastOp.id /\
         Loaded(lastOp.id) /\ diag.sev = "INFO")
          => /\ lastOp.op = "LoadSound" => lastOp'.ret = "false"
             /\ lastOp.op = "SndPlaySound" => lastOp'.ret = "true"
             /\ lastOp.op = "StopSound" => lastOp'.ret = "false" ]_vars

\* IsSoundPlaying has returned true for an entry that plays from frame 0
\* without looping.
C12_Witness ==
    /\ lastOp.op = "IsSoundPlaying" /\ lastOp.ret = "true"
    /\ Loaded(lastOp.id)
    /\ CallNames(calls) = <<"ma_sound_is_playing">>
    /\ sounds[HandleOf(lastOp.id)].pos = 0
    /\ ~sounds[HandleOf(lastOp.id)].looping

\* C15: when the engine rejects ma_engine_init, InitializeSoundSystem
\* returns false, g_engine holds no live engine afterwards, the map and the
\* ma_sound objects are unchanged, and the error message written carries the
\* ma_result of the call.
C15_FailedInitKeepsNothing ==
    [][ (lastOp'.op = "InitializeSoundSystem" /\ calls'[1].res # MA_SUCCESS)
          => /\ lastOp'.ret = "false"
             /\ g_engine' # "live"
             /\ g_loadedSounds' = g_loadedSounds
             /\ sounds' = sounds
             /\ CallNames(calls') = <<"ma_engine_init">>
             /\ diag'.sev = "ERROR" /\ diag'.op = "InitializeSoundSystem"
             /\ diag'.code = calls'[1].res ]_vars

\* InitializeSoundSystem has returned false with the engine's result in its
\* message.
C15_Witness ==
    /\ lastOp.op = "InitializeSoundSystem" /\ lastOp.ret = "false"
    /\ g_engine = "zero"
    /\ g_loadedSounds = {}
    /\ diag = Message("ERROR", "InitializeSoundSystem", "", MA_ERROR)

\* C17: with a live engine, UnloadSound and ShutdownSoundSystem treat each
\* entry (of a non-empty soundId) they remove in this order: ma_sound_stop if the entry is playing, then ma_sound_uninit
\* and delete, then the removal from the map; ShutdownSoundSystem calls
\* ma_engine_uninit after the last ma_sound is released.
C17_StopReleaseErase ==
    [][ \A e \in g_loadedSounds :
          (/\ g_engine = "live" /\ e.id # ""
           /\ \/ lastOp'.op = "ShutdownSoundSystem"
              \/ (lastOp'.op = "UnloadSound" /\ lastOp'.id = e.id))
          => LET on(fn) == {i \in CallsTo(calls', fn) : calls'[i].h = e.h}
             IN  /\ Cardinality(on("ma_sound_uninit")) = 1
                 /\ Cardinality(on("delete")) = 1
                 /\ sounds[e.h].playing => on("ma_sound_stop") # {}
                 /\ \A i \in on("ma_sound_stop"), j \in on("ma_sound_uninit") : i < j
                 /\ \A i \in on("ma_sound_uninit"), j \in on("delete") : i < j
                 /\ e \notin g_loadedSounds'
                 /\ \A i \in on("delete"), j \in CallsTo(calls', "ma_engine_uninit") : i < j ]_vars

\* C18: StopSound on an entry of the map that is not playing only asks the
\* engine whether it plays: no stop, no seek, no error or warning message,
\* and the map, the engine and every ma_sound object (state, cursor and
\* looping flag included) stay as they were.
C18_StopNotPlayingIsNoOp ==
    [][ (lastOp'.op = "StopSound" /\ Loaded(lastOp'.id) /\
         ~sounds[HandleOf(lastOp'.id)].playing)
          => /\ CallNames(calls') = <<"ma_sound_is_playing">>
             /\ calls'[1].h = HandleOf(lastOp'.id)
             /\ diag'.sev \notin {"ERROR", "WARNING"}
             /\ sounds' = sounds
             /\ g_loadedSounds' = g_loadedSounds
             /\ g_engine' = g_engine ]_vars

\* StopSound found its entry paused past frame 0, with the looping flag
\* set, and left it so.
C18_Witness ==
    /\ lastOp.op = "StopSound" /\ Loaded(lastOp.id)
    /\ diag = Message("INFO", "StopSound", lastOp.id, "not playing")
    /\ CallNames(calls) = <<"ma_sound_is_playing">>
    /\ ~sounds[HandleOf(lastOp.id)].playing
    /\ sounds[HandleOf(lastOp.id)].pos > 0
    /\ sounds[HandleOf(lastOp.id)].looping

\* The position in the call log cs of its only call to fn (0 if there is
\* not exactly one).
IndexOf(cs, fn) ==
    IF Cardinality(CallsTo(cs, fn)) = 1 THEN CHOOSE i \in CallsTo(cs, fn) : TRUE ELSE 0

C20_NoSilentError ==
    [][ g_engine = "live" =>
          /\ (\E i \in DOMAIN calls' :
                 /\ calls'[i].fn \in {"ma_sound_start", "ma_sound_stop"}
                 /\ calls'[i].res # MA_SUCCESS)
               => /\ diag'.sev = "ERROR"
                  /\ diag'.op = lastOp'.op
                  /\ diag'.what = lastOp'.id
          /\ (\E i \in DOMAIN calls' :
                 /\ calls'[i].fn = "ma_sound_init_from_file"
                 /\ calls'[i].res # MA_SUCCESS)
               => diag'.sev = "ERROR" /\ diag'.op = lastOp'.op
          /\ (\/ lastOp'.op = "LoadSound" /\ (lastOp'.id = Null \/ lastOp'.arg = Null)
              \/ lastOp'.op \in LookupOps \ {"IsSoundPlaying"} /\ lastOp'.id = Null)
               => diag'.sev = "ERROR" /\ diag'.op = lastOp'.op
          /\ (lastOp'.op \in LookupOps \ {"IsSoundPlaying"} /\
              lastOp'.id # Null /\ ~Loaded(lastOp'.id))
               => diag'.sev = "WARNING" /\ diag'.op = lastOp'.op ]_vars

\* lo <= a <= hi on floats (false for NaN).
InRange(a, lo, hi) == FloatLessEq(lo, a) /\ FloatLessEq(a, hi)

\* What the call log entry c passes for the input v of a setter that clamps
\* to lo..hi: a value of the range, lo for an input below it, hi for one
\* above it, and an input of the range itself.
PassesClamped(c, v, lo, hi) ==
    /\ InRange(c.arg, lo, hi)
    /\ FloatLess(v, lo) => c.arg = lo
    /\ FloatLess(hi, v) => c.arg = hi
    /\ InRange(v, lo, hi) => c.arg = v

\* C13: with a live engine, SetMasterVolume and SetSoundVolume (on an entry
\* of the map) make one volume call whose value is the input clamped to
\* 0..1, and SetSoundPan one pan call whose value is the input clamped to
\* -1..1: no value outside the range reaches the engine, whatever the input.
C13_ClampedVolumeAndPan ==
    g_engine = "live" =>
      /\ lastOp.op = "SetMasterVolume"
           => /\ CallNames(calls) = <<"ma_engine_set_volume">>
              /\ PassesClamped(calls[1], lastOp.arg, 0, 10000)
      /\ (lastOp.op = "SetSoundVolume" /\ Loaded(lastOp.id))
           => /\ CallNames(calls) = <<"ma_sound_set_volume">>
              /\ calls[1].h = HandleOf(lastOp.id)
              /\ PassesClamped(calls[1], lastOp.arg, 0, 10000)
      /\ (lastOp.op = "SetSoundPan" /\ Loaded(lastOp.id))
           => /\ CallNames(calls) = <<"ma_sound_set_pan">>
              /\ calls[1].h = HandleOf(lastOp.id)
              /\ PassesClamped(calls[1], lastOp.arg, -10000, 10000)

\* C14: SetSoundPitch on an entry of the map makes one pitch call; the
\* value passed is never 0 or less: it is 0.001 for an input of 0 or less
\* and the input itself for every input above 0, however small or large.
C14_PitchFloor ==
    (lastOp.op = "SetSoundPitch" /\ Loaded(lastOp.id))
        => /\ CallNames(calls) = <<"ma_sound_set_pitch">>
           /\ calls[1].h = HandleOf(lastOp.id)
           /\ ~FloatLessEq(calls[1].arg, 0)
           /\ FloatLessEq(lastOp.arg, 0) => calls[1].arg = 10
           /\ FloatLess(0, lastOp.arg) => calls[1].arg = lastOp.arg
           /\ sounds[HandleOf(lastOp.id)].pitch = calls[1].arg

\* SetSoundPitch was called with a negative pitch on a playing entry and
\* passed 0.001.
C14_Witness ==
    /\ lastOp.op = "SetSoundPitch" /\ Loaded(lastOp.id)
    /\ FloatLess(lastOp.arg, 0)
    /\ CallNames(calls) = <<"ma_sound_set_pitch">>
    /\ calls[1].arg = PitchFloor
    /\ sounds[HandleOf(lastOp.id)].pitch = PitchFloor
    /\ sounds[HandleOf(lastOp.id)].playing

\* ------------------------------------------------------------ two threads
\* The engine was handed a ma_sound that is not in the state the call
\* needs (a deleted one, for instance): undefined behaviour.
UndefinedIn(cs) ==
    \E i \in DOMAIN cs : cs[i].h # NoHandle /\ cs[i].hs \notin ValidFor(cs[i].fn)
Undefined == UndefinedIn(calls)

\* The operations the threads call, all on one soundId.  Thread T1 loads
\* and unloads (and initialises and shuts down); thread T2 calls every
\* operation that looks the soundId up.
ThreadOps ==
    {"LoadSound", "UnloadSound", "SndPlaySound", "StopSound", "PauseSound",
     "ResumeSound", "SetSoundVolume", "IsSoundPlaying"}
OpsOf(t) == IF t = "T1" THEN {"LoadSound", "UnloadSound"} ELSE ThreadOps
ThreadSoundIds == {"a"}

\* The rest of operation op after its lookup, run on the state s whose map
\* holds what the lookup found.
ThreadRun(s, op, soundId, allocOk, r1, r2) ==
    CASE op = "LoadSound" -> LoadSoundFn(s, "a.wav", soundId, allocOk, r1)
      [] op = "UnloadSound" -> UnloadSoundFn(s, soundId, r1)
      [] op = "SndPlaySound" -> SndPlaySoundFn(s, soundId, FALSE, r1, r2)
      [] op = "StopSound" -> StopSoundFn(s, soundId, r1)
      [] op = "PauseSound" -> PauseSoundFn(s, soundId, r1)
      [] op = "ResumeSound" -> ResumeSoundFn(s, soundId, r1)
      [] op = "SetSoundVolume" -> SetSoundVolumeFn(s, soundId, VolumeMax)
      [] op = "IsSoundPlaying" -> IsSoundPlayingFn(s, soundId)

\* The map m after an operation that found the entries it and left them as
\* out: what it erased is erased from m, what it assigned is assigned in m.
MergeMap(m, it, out) ==
    LET erased == {e \in m : e.id \notin Keys(it \ out)}
    IN  IF out \ it = {} THEN erased
        ELSE LET e == CHOOSE x \in out \ it : TRUE
             IN  MapAssign(erased, e.id, e.h)

\* Thread t has run and made the calls cs: it is idle again, and every
\* other thread that holds an iterator has been raced.  (Whether t was
\* raced is kept on record when its calls were undefined.)
Interleave(t, cs) ==
    [u \in Threads |->
        IF u = t THEN [IdleThread EXCEPT !.raced = threads[t].raced /\ UndefinedIn(cs)]
        ELSE IF threads[u].pc = "found" THEN [threads[u] EXCEPT !.raced = TRUE]
        ELSE threads[u]]

\* g_loadedSounds.find(s_soundId) (count, in LoadSound): the thread holds
\* the entry the map has at this moment, or end().
ThreadFind(t, op, soundId) ==
    /\ threads[t].pc = "idle"
    /\ ~Undefined
    /\ threads' = [threads EXCEPT ![t] =
                      [pc |-> "found", op |-> op, id |-> soundId,
                       it |-> {e \in g_loadedSounds : e.id = soundId},
                       raced |-> FALSE]]
    /\ running' = t
    /\ UNCHANGED <<g_engine, g_loadedSounds, sounds, calls, diag, lastOp>>

\* The rest of the operation, on the ma_sound the iterator points to.
ThreadBody(t, allocOk, r1, r2) ==
    /\ threads[t].pc = "found"
    /\ ~Undefined
    /\ \E s \in {ThreadRun([Entry EXCEPT !.reg = threads[t].it],
                           threads[t].op, threads[t].id, allocOk, r1, r2)} :
           /\ g_engine' = s.eng
           /\ g_loadedSounds' = MergeMap(g_loadedSounds, threads[t].it, s.reg)
           /\ sounds' = s.snd
           /\ calls' = s.calls
           /\ diag' = s.diag
           /\ lastOp' = Called(s, threads[t].op, threads[t].id, "")
           /\ threads' = Interleave(t, s.calls)
    /\ running' = t

\* InitializeSoundSystem and ShutdownSoundSystem look nothing up: they run
\* in one step.
ThreadInitialize(t, r) ==
    /\ threads[t].pc = "idle"
    /\ ~Undefined
    /\ \E s \in {InitializeSoundSystemFn(Entry, r)} :
           /\ g_engine' = s.eng
           /\ g_loadedSounds' = s.reg
           /\ sounds' = s.snd
           /\ calls' = s.calls
           /\ diag' = s.diag
           /\ lastOp' = Called(s, "InitializeSoundSystem", Null, "")
           /\ threads' = Interleave(t, s.calls)
    /\ running' = t

ThreadShutdown(t) ==
    /\ threads[t].pc = "idle"
    /\ ~Undefined
    /\ \E s \in {ShutdownSoundSystemFn(Entry)} :
           /\ g_engine' = s.eng
           /\ g_loadedSounds' = s.reg
           /\ sounds' = s.snd
           /\ calls' = s.calls
           /\ diag' = s.diag
           /\ lastOp' = Called(s, "ShutdownSoundSystem", Null, "")
           /\ threads' = Interleave(t, s.calls)
    /\ running' = t

NextThreads ==
    \/ \E t \in Threads, id \in ThreadSoundIds : \E op \in OpsOf(t) : ThreadFind(t, op, id)
    \/ \E t \in Threads, allocOk \in BOOLEAN, r1 \in Results, r2 \in Results :
          ThreadBody(t, allocOk, r1, r2)
    \/ \E r \in Results : ThreadInitialize("T1", r)
    \/ ThreadShutdown("T1")

SpecThreads == Init /\ [][NextThreads]_vars

\* C16: the wrapper takes no lock.  When two threads call it, a ma_sound
\* that was released is passed to the engine, or released again, only by
\* an operation that another thread's UnloadSound, ShutdownSoundSystem or
\* other operation ran into, between its lookup and the rest of it; an
\* operation that ran with no other in between never does so.
C16_UnsafeOnlyWhenInterleaved ==
    Undefined => (running \in Threads /\ threads[running].raced)

\* A thread looked "a" up for SndPlaySound, another thread released the
\* ma_sound, and SndPlaySound passed the released object to the engine.
C16_Witness ==
    /\ lastOp.op = "SndPlaySound"
    /\ running \in Threads /\ threads[running].raced
    /\ \E i \in DOMAIN calls : calls[i].fn = "ma_sound_start" /\ calls[i].hs = "free"

C22_PlayResumesWhenNotPlaying ==
    [][ (lastOp'.op = "SndPlaySound" /\ Loaded(lastOp'.id))
          => LET h == HandleOf(lastOp'.id)
                 start == IndexOf(calls', "ma_sound_start")
             IN  /\ CallsTo(calls', "ma_sound_seek_to_pcm_frame") # {} <=> sounds[h].playing
                 /\ ~sounds[h].playing
                      => /\ CallNames(calls') =
                                <<"ma_sound_is_playing", "ma_sound_set_looping",
                                  "ma_sound_start">>
                         /\ sounds'[h].pos = sounds[h].pos
                         /\ sounds'[h].looping = lastOp'.arg
                         /\ sounds'[h].playing <=> calls'[start].res = MA_SUCCESS
                         /\ sounds' =
                                [ResumeSoundFn(Entry, lastOp'.id, calls'[start].res).snd
                                     EXCEPT ![h].looping = lastOp'.arg] ]_vars

\* SndPlaySound has started a stopped entry that stands past frame 0, and
\* set its looping flag: it plays on from there.
C22_Witness ==
    /\ lastOp.op = "SndPlaySound" /\ lastOp.arg = TRUE /\ diag.sev = "INFO"
    /\ Loaded(lastOp.id)
    /\ CallNames(calls) = <<"ma_sound_is_playing", "ma_sound_set_looping", "ma_sound_start">>
    /\ sounds[HandleOf(lastOp.id)].playing
    /\ sounds[HandleOf(lastOp.id)].looping
    /\ sounds[HandleOf(lastOp.id)].pos > 0

\* The operations on one sound, and the four that set a parameter.
PerSoundOps ==
    {"LoadSound", "UnloadSound", "SndPlaySound", "StopSound", "PauseSound",
     "ResumeSound", "SetSoundVolume", "SetSoundPan", "SetSoundPitch",
     "SetSoundPosition"}
SetterOps == {"SetSoundVolume", "SetSoundPan", "SetSoundPitch", "SetSoundPosition"}

\* C23: an operation on one sound, called with soundId A, leaves every
\* entry of another soundId in the map with the same ma_sound, and that
\* ma_sound as it was (state, cursor, looping flag, parameters), adds no
\* entry under another soundId and passes no other entry's ma_sound to the
\* engine; the four setters also leave A's entry in place and A's playing
\* state, cursor and looping flag as they were.
C23_OtherEntriesUntouched ==
    [][ lastOp'.op \in PerSoundOps
          => /\ \A e \in g_loadedSounds : e.id # lastOp'.id
                    => /\ e \in g_loadedSounds'
                       /\ sounds'[e.h] = sounds[e.h]
                       /\ \A i \in DOMAIN calls' : calls'[i].h # e.h
             /\ \A e \in g_loadedSounds' : e.id # lastOp'.id => e \in g_loadedSounds
             /\ (lastOp'.op \in SetterOps /\ Loaded(lastOp'.id))
                  => LET h == HandleOf(lastOp'.id)
                     IN  /\ g_loadedSounds' = g_loadedSounds
                         /\ sounds'[h].status = sounds[h].status
                         /\ sounds'[h].playing = sounds[h].playing
                         /\ sounds'[h].pos = sounds[h].pos
                         /\ sounds'[h].looping = sounds[h].looping
                         /\ sounds'[h].path = sounds[h].path ]_vars

\* SetSoundPosition was called on an entry that is playing, looping, past
\* frame 0, while the map holds a playing entry under another soundId.
C23_Witness ==
    /\ lastOp.op = "SetSoundPosition" /\ Loaded(lastOp.id)
    /\ CallNames(calls) = <<"ma_sound_set_position">>
    /\ sounds[HandleOf(lastOp.id)].playing
    /\ sounds[HandleOf(lastOp.id)].looping
    /\ sounds[HandleOf(lastOp.id)].pos > 0
    /\ \E e \in g_loadedSounds : e.id # lastOp.id /\ sounds[e.h].playing

\* C24: the engine object is passed to ma_engine_uninit only while it holds
\* a live engine (not before an InitializeSoundSystem succeeded, not after
\* one failed, not a second time after a release), and to ma_engine_init
\* only while it holds none, so that no live engine is overwritten.
C24_EngineReleasedOnlyWhenLive ==
    \A i \in DOMAIN calls :
        /\ calls[i].fn = "ma_engine_uninit" => calls[i].eng = "live"
        /\ calls[i].fn = "ma_engine_init" => calls[i].eng # "live"
=============================================================================
